---- MODULE Spec2Model ----
(***************************************************************************)
(* Model of the event-scheduling engine of RUNK-MAX (runk-max.py):         *)
(* class EngineThread (start / stop / toggle_pause, the loop _run, the     *)
(* daemon supervisor _ensure_ydotoold / _stop_ydotoold).                   *)
(*                                                                         *)
(* The controller calls come from the single GTK main thread, so they are  *)
(* sequential among themselves; stop() is two steps (set the flags, then   *)
(* return from the bounded join and tear down) and the loop threads run    *)
(* in between.  Time is abstracted: the 1.5 s join may expire whenever the *)
(* joined thread is still alive.                                           *)
(*                                                                         *)
(* Spec takes a cycle's move as one step and lets several runs overlap;    *)
(* PressSpec follows one run key command by key command, over every        *)
(* combination of enabled keys; ExternalSpec is Spec on a host where a     *)
(* ydotoold is already running; DrawSpec is the press-level run with idle  *)
(* and double-tap chances on both sides of the floor of 2; RunSpec is one  *)
(* run whose caller changes the config dict (on_any_change); NormSpec      *)
(* applies normalize_config to bounded mappings.                           *)
(***************************************************************************)
EXTENDS Integers, Sequences, FiniteSets

\* ---------------------------------------------------------------- bounds
\* Loop threads created in one behaviour (thread.start() calls).
MaxThreads == 2
\* start() calls that return at the already-active guard, per behaviour.
MaxNoopStarts == 1
\* Cap of the ghost counter of 150 ms polls of one stay in the pause loop.
MaxPolls == 2
\* Widget changes of the user in one behaviour (on_any_change calls).
MaxChanges == 1
\* Fields a mapping handed to normalize_config gives a value of its own.
MaxGiven == 2
\* Passes of normalize_config over one mapping (on_preset_selected makes 2).
MaxPasses == 2

Threads == 1..MaxThreads

\* The four direction keys of config["keys"].
Keys == {"W", "A", "S", "D"}

\* The part of the config the loop reads here: the set of enabled keys.
\* Every config with fewer than 2 keys, one with exactly 2 and the default
\* with all four.
Configs ==
    {c \in SUBSET Keys : Cardinality(c) < 2} \cup {{"W", "A"}, Keys}

\* len(enabled) < 2 stops the run at entry.
MinEnabledKeys == 2

\* Status texts passed to status().
StRunning == "Running"
StPaused == "Paused"
StStopped == "Stopped"
StFewKeys == "Stopped: enable at least 2 keys"
StNoDaemon == "Stopped: ydotoold missing or failed"
StoppedTexts == {StStopped, StFewKeys, StNoDaemon}

VARIABLES
    stopFlag,          \* self._stop
    pauseFlag,         \* self._pause
    thread,            \* self.thread: 0 is None, else a thread id
    ydotoold_proc,     \* self.ydotoold_proc: 0 is None, else a process id
    socket_path,       \* self.socket_path is set (the path is fixed per pid)
    started_ydotoold,  \* self.started_ydotoold
    ctl,               \* main thread: "idle", or "joining" inside stop()
    caller,            \* the caller's config dict, passed to every start()
                       \* (keys enabled, codes, flags, chances), and the
                       \* on_any_change calls made so far
    host,              \* the host: ydotool installed, a ydotoold of its own
                       \* running, a ydotoold exits on SIGTERM
    norm,              \* normalize_config on its own (NormSpec): the mapping
                       \* given, the latest output, the calls made
    nthreads,          \* threads created so far; their ids are 1..nthreads
    pc,                \* position of each loop thread in _run
    paused_reported,   \* local paused_reported of each _run
    run_config,        \* what each _run read from the config into its
                       \* locals (vert, horiz, enable_diag, idle_enabled, ...)
    start_config,      \* what the config held when the start() call that
                       \* created the observed thread was made
    procs,             \* OS: state of the daemon process launched by thread t
    sockFile,          \* OS: the socket file exists
    \* ---- observation (history) variables.  One run, obs, is observed; obs
    \* is any thread id, so what holds of the observed run holds of every run.
    obs,               \* the observed run
    ensureResult,      \* what _ensure_ydotoold returned to the observed run
    dispatched,        \* the observed run has issued a key command
    recent,            \* the last two statuses the observed run reported
    stopState,         \* "requested": a stop() was issued while the observed
                       \* run was active; "returned": and it has returned
    late,              \* the observed run reported Running or Paused after
                       \* that stop() returned
    polls,             \* pause polls of the observed run since its last
                       \* "Running", counted up to MaxPolls
    noopStarts,        \* start() calls that returned at the guard
    tdSince,           \* _stop_ydotoold calls since the latest stop() began
    stopExits,         \* loops that left on the stop flag since then
    \* ---- the press-level run (PressSpec): locals of its _run
    move_type,         \* move_type of the current cycle
    keys,              \* keys: the planned sequence of two codes
    step,              \* position in the two for loops over keys: 1, 2 in
                       \* the forward pass, 3, 4 in the reverse pass
    tap,               \* 1 in the first press_key of maybe_double, 2 in
                       \* the second
    events,            \* the key commands issued in the current cycle, as
                       \* <<code, 1>> (down) and <<code, 0>> (up)
    idle_draw,         \* the idle draw of the observed run's cycle, until
                       \* its move begins; 0 when none was made
    double_draw        \* the double-tap draw after the latest press; 0 when
                       \* none was made

engineVars == <<stopFlag, pauseFlag, thread, ydotoold_proc, socket_path,
                started_ydotoold>>
threadVars == <<nthreads, pc, paused_reported, run_config, start_config>>
osVars == <<procs, sockFile>>
obsVars == <<obs, ensureResult, dispatched, recent, stopState, late, polls,
             tdSince, stopExits>>
\* What a behaviour is given: the caller's config, which only on_any_change
\* writes, the host, and the mapping normalize_config is tried on.
inputVars == <<caller, host, norm>>

\* The caller's config dict: the keys whose "enabled" is true,
config == caller.keys
\* the "code" of each key,
codes == caller.codes
\* "enable_diagonals", "double_tap_enabled", "idle_enabled",
enable_diagonals == caller.enable_diagonals
double_tap_enabled == caller.double_tap_enabled
idle_enabled == caller.idle_enabled
\* "idle_chance" and "double_tap_chance".
idle_chance == caller.idle_chance
double_tap_chance == caller.double_tap_chance
\* on_any_change calls made so far.
changes == caller.changes

\* Host: the ydotool executable is on the PATH.
ydotool_installed == host.ydotool_installed
\* Host: a ydotoold the engine did not launch is running for this user.
externalDaemon == host.externalDaemon
\* Host: a ydotoold sent SIGTERM exits within the second _stop_ydotoold
\* waits for it.
daemon_exits_on_term == host.daemon_exits_on_term

\* The mapping given to normalize_config, what its latest call returned,
\* and the calls made so far.
raw == norm.raw
normalized == norm.normalized
passes == norm.passes
\* Locals of the press-level run (PressSpec) and the record of its key
\* commands and draws.
planVars == <<move_type, keys, step, tap, events, double_draw>>
pressVars == <<planVars, idle_draw>>
vars == <<engineVars, ctl, inputVars, threadVars, osVars, obsVars, noopStarts,
          pressVars>>

\* ------------------------------------------------------------- helpers
\* threading.Thread.is_alive(): started and _run has not returned.
\* "raised" is a _run left by an exception nothing caught.
IsAlive(t) == t \in 1..nthreads /\ pc[t] \notin {"done", "raised"}

LoopActive == {t \in 1..nthreads : pc[t] \notin {"done", "raised"}}

Last2(s) == IF Len(s) > 2 THEN SubSeq(s, Len(s) - 1, Len(s)) ELSE s

LastStatus == IF recent = <<>> THEN "none" ELSE recent[Len(recent)]

\* status(s) called by thread t: GLib.idle_add(on_status, s), as the observer
\* of run obs records it.
status(t, s) ==
    /\ recent' = IF t = obs THEN Last2(Append(recent, s)) ELSE recent
    /\ late' = (late \/ (t = obs /\ stopState = "returned" /\ s \in {StRunning, StPaused}))

\* config["keys"][k]["code"] of DEFAULT_CONFIG.
code == [k \in Keys |->
           CASE k = "W" -> 17 [] k = "A" -> 30 [] k = "S" -> 31 [] k = "D" -> 32]

\* The default codes, and S given the code of W in the UI.
CodeMaps == {code, [code EXCEPT !["S"] = code["W"]]}

\* What the caller's config dict holds now.
CurrentConfig ==
    [keys |-> config, codes |-> codes, enable_diagonals |-> enable_diagonals,
     idle_enabled |-> idle_enabled, idle_chance |-> idle_chance,
     double_tap_enabled |-> double_tap_enabled,
     double_tap_chance |-> double_tap_chance]

\* The chances the spin buttons of the window can hold (range 2..200): the
\* lowest two.
UiChances == {2, 3}

\* The configs one changed widget leaves in the caller's dict: one key
\* enabled or disabled, one flag toggled, one chance or one code changed.
ConfigsAfterChange ==
    LET cur == CurrentConfig
        all == [keys : SUBSET Keys, codes : CodeMaps,
                enable_diagonals : BOOLEAN, idle_enabled : BOOLEAN,
                idle_chance : UiChances, double_tap_enabled : BOOLEAN,
                double_tap_chance : UiChances]
        b(p) == IF p THEN 1 ELSE 0
        diff(c) ==
            Cardinality((c.keys \ cur.keys) \cup (cur.keys \ c.keys))
            + b(c.codes # cur.codes)
            + b(c.enable_diagonals # cur.enable_diagonals)
            + b(c.idle_enabled # cur.idle_enabled)
            + b(c.idle_chance # cur.idle_chance)
            + b(c.double_tap_enabled # cur.double_tap_enabled)
            + b(c.double_tap_chance # cur.double_tap_chance)
    IN  {c \in all : diff(c) = 1}

\* The locals of a _run that has not read its config yet.
NoConfig ==
    [keys |-> {}, codes |-> code, enable_diagonals |-> FALSE,
     idle_enabled |-> FALSE, idle_chance |-> 0,
     double_tap_enabled |-> FALSE, double_tap_chance |-> 0]

\* The engine after EngineThread.__init__, no thread started.
InitState ==
    /\ stopFlag = FALSE
    /\ pauseFlag = FALSE
    /\ thread = 0
    /\ ydotoold_proc = 0
    /\ socket_path = FALSE
    /\ started_ydotoold = FALSE
    /\ ctl = "idle"
    /\ nthreads = 0
    /\ pc = [t \in Threads |-> "unborn"]
    /\ paused_reported = [t \in Threads |-> FALSE]
    /\ run_config = [t \in Threads |-> NoConfig]
    /\ start_config = NoConfig
    /\ procs = [t \in Threads |-> "none"]
    /\ sockFile = FALSE
    /\ ensureResult = "none"
    /\ dispatched = FALSE
    /\ recent = <<>>
    /\ stopState = "none"
    /\ late = FALSE
    /\ polls = 0
    /\ noopStarts = 0
    /\ tdSince = 0
    /\ stopExits = 0
    /\ move_type = "none"
    /\ keys = <<>>
    /\ step = 0
    /\ tap = 0
    /\ events = <<>>
    /\ idle_draw = 0
    /\ double_draw = 0

\* normalize_config is not part of the behaviour.
NoNormalize == norm = [raw |-> <<>>, normalized |-> <<>>, passes |-> 0]

\* The caller's dicts with the keys, codes, flags and chances of the given
\* sets, before any on_any_change.
Callers(ks, cms, diags, idles, ichances, doubles, dchances) ==
    [keys : ks, codes : cms, enable_diagonals : diags, idle_enabled : idles,
     idle_chance : ichances, double_tap_enabled : doubles,
     double_tap_chance : dchances, changes : {0}]

\* The hosts of the given sets.
Hosts(installed, external, exits) ==
    [ydotool_installed : installed, externalDaemon : external,
     daemon_exits_on_term : exits]

\* The flags and codes of DEFAULT_CONFIG, with both chances at 2, the lowest
\* value the UI offers.
DefaultTuning(ks) ==
    Callers(ks, {code}, {TRUE}, {TRUE}, {2}, {TRUE}, {2})

\* The configs of Configs with the default tuning, on a host with or without
\* the ydotool executable, with no daemon of its own and where a ydotoold
\* exits on SIGTERM.
Init ==
    /\ InitState
    /\ NoNormalize
    /\ caller \in DefaultTuning(Configs)
    /\ host \in Hosts(BOOLEAN, {FALSE}, {TRUE})
    /\ obs \in Threads

\* ------------------------------------------------------ daemon supervisor
\* _ensure_ydotoold, under self._ydotool_lock: set the socket path, remove a
\* stale socket file, launch the daemon.  ok is whether Popen succeeded; the
\* daemon launched by thread t gets process id t and creates the socket.
\* Nothing here looks for a daemon that is already running: externalDaemon
\* is not read, the launch is unconditional.
_ensure_ydotoold(t, ok) ==
    /\ socket_path' = TRUE
    /\ IF ok
         THEN /\ ydotoold_proc' = t
              /\ procs' = [procs EXCEPT ![t] = "alive"]
              /\ started_ydotoold' = TRUE
              /\ sockFile' = TRUE
         ELSE /\ sockFile' = FALSE
              /\ UNCHANGED <<ydotoold_proc, procs, started_ydotoold>>

\* The daemon killed without a terminate() and a wait first.
TermOutcome_kill_at_once == "killed"

\* How a live daemon ends in _stop_ydotoold: terminate(), then wait(1.0);
\* "terminated" when it exits within the wait, and on TimeoutExpired kill():
\* "killed".
TermOutcome == IF daemon_exits_on_term THEN "terminated" ELSE "killed"

\* _stop_ydotoold without its last line: the owned flag is left as it was.
_stop_ydotoold_keeps_owned ==
    /\ procs' = IF ydotoold_proc # 0 /\ procs[ydotoold_proc] = "alive"
                  THEN [procs EXCEPT ![ydotoold_proc] = TermOutcome]
                  ELSE procs
    /\ ydotoold_proc' = 0
    /\ sockFile' = IF started_ydotoold /\ socket_path THEN FALSE ELSE sockFile
    /\ tdSince' = tdSince + 1
    /\ UNCHANGED <<socket_path, started_ydotoold>>

\* _stop_ydotoold, under self._ydotool_lock.
\* terminate(), wait(1.0), kill() on timeout: the process is not alive
\* afterwards either way.
_stop_ydotoold ==
    /\ procs' = IF ydotoold_proc # 0 /\ procs[ydotoold_proc] = "alive"
                  THEN [procs EXCEPT ![ydotoold_proc] = TermOutcome]
                  ELSE procs
    /\ ydotoold_proc' = 0
    /\ sockFile' = IF started_ydotoold /\ socket_path THEN FALSE ELSE sockFile
    /\ started_ydotoold' = FALSE
    /\ tdSince' = tdSince + 1
    /\ UNCHANGED socket_path

\* ------------------------------------------------------------ controller
\* start() with the guard reduced to "if self.thread: return" dropped
\* altogether: every call clears the flags and creates a thread.
start_unguarded ==
    /\ ctl = "idle"
    /\ nthreads < MaxThreads
    /\ stopFlag' = FALSE
    /\ pauseFlag' = FALSE
    /\ thread' = nthreads + 1
    /\ nthreads' = nthreads + 1
    /\ pc' = [pc EXCEPT ![nthreads + 1] = "entry"]
    /\ start_config' = IF nthreads + 1 = obs
                         THEN CurrentConfig ELSE start_config
    /\ UNCHANGED <<ydotoold_proc, socket_path, started_ydotoold, ctl,
                   inputVars, paused_reported, run_config, osVars, obsVars,
                   noopStarts, pressVars>>

\* start() without self._pause.clear(): the pause flag is left as it was.
start_keeps_pause ==
    /\ ctl = "idle"
    /\ IF thread # 0 /\ IsAlive(thread)
         THEN /\ noopStarts < MaxNoopStarts
              /\ noopStarts' = noopStarts + 1
              /\ UNCHANGED <<engineVars, ctl, inputVars, threadVars, osVars,
                             obsVars, pressVars>>
         ELSE /\ nthreads < MaxThreads
              /\ stopFlag' = FALSE
              /\ thread' = nthreads + 1
              /\ nthreads' = nthreads + 1
              /\ pc' = [pc EXCEPT ![nthreads + 1] = "entry"]
              /\ start_config' = IF nthreads + 1 = obs
                                   THEN CurrentConfig ELSE start_config
              /\ UNCHANGED <<pauseFlag, ydotoold_proc, socket_path,
                             started_ydotoold, ctl, inputVars,
                             paused_reported, run_config, osVars, obsVars,
                             noopStarts, pressVars>>

\* EngineThread.start(config, on_status).
start ==
    /\ ctl = "idle"
    /\ IF thread # 0 /\ IsAlive(thread)
         THEN /\ noopStarts < MaxNoopStarts
              /\ noopStarts' = noopStarts + 1
              /\ UNCHANGED <<engineVars, ctl, inputVars, threadVars, osVars,
                             obsVars, pressVars>>
         ELSE /\ nthreads < MaxThreads
              /\ stopFlag' = FALSE
              /\ pauseFlag' = FALSE
              /\ thread' = nthreads + 1
              /\ nthreads' = nthreads + 1
              /\ pc' = [pc EXCEPT ![nthreads + 1] = "entry"]
              /\ start_config' = IF nthreads + 1 = obs
                                   THEN CurrentConfig ELSE start_config
              /\ UNCHANGED <<ydotoold_proc, socket_path, started_ydotoold,
                             ctl, inputVars, paused_reported, run_config,
                             osVars, obsVars, noopStarts, pressVars>>

\* EngineThread.stop(), up to the join: set _stop, clear _pause.
stop_begin ==
    /\ ctl = "idle"
    /\ stopFlag' = TRUE
    /\ pauseFlag' = FALSE
    /\ ctl' = "joining"
    /\ stopState' = IF ~IsAlive(obs) THEN "none"
                    ELSE IF stopState = "returned" THEN "returned"
                    ELSE "requested"
    /\ tdSince' = 0
    /\ stopExits' = 0
    /\ UNCHANGED <<thread, ydotoold_proc, socket_path, started_ydotoold,
                   inputVars, threadVars, osVars, obs, ensureResult, dispatched,
                   recent, late, polls, noopStarts, pressVars>>

\* stop() that tears the daemon down only when the join timed out.
stop_finish_teardown_on_timeout ==
    /\ ctl = "joining"
    /\ thread' = 0
    /\ IF thread # 0 /\ IsAlive(thread)
         THEN _stop_ydotoold
         ELSE UNCHANGED <<ydotoold_proc, socket_path, started_ydotoold, osVars,
                         tdSince>>
    /\ ctl' = "idle"
    /\ stopState' = IF stopState = "requested" THEN "returned" ELSE stopState
    /\ UNCHANGED <<stopFlag, pauseFlag, inputVars, threadVars, obs,
                   ensureResult, dispatched, recent, late, polls, noopStarts,
                   stopExits, pressVars>>

\* EngineThread.stop(), from the return of join(timeout=1.5) on:
\* self.thread = None; self._stop_ydotoold().
stop_finish ==
    /\ ctl = "joining"
    /\ thread' = 0
    /\ _stop_ydotoold
    /\ ctl' = "idle"
    /\ stopState' = IF stopState = "requested" THEN "returned" ELSE stopState
    /\ UNCHANGED <<stopFlag, pauseFlag, inputVars, threadVars, obs,
                   ensureResult, dispatched, recent, late, polls, noopStarts,
                   stopExits, pressVars>>

\* join returned because there was no thread or the thread has exited.
stop_joined == (thread = 0 \/ ~IsAlive(thread)) /\ stop_finish

\* join returned on its timeout, the thread still alive.
stop_join_timeout == thread # 0 /\ IsAlive(thread) /\ stop_finish

\* EngineThread.toggle_pause().
toggle_pause ==
    /\ ctl = "idle"
    /\ pauseFlag' = ~pauseFlag
    /\ UNCHANGED <<stopFlag, thread, ydotoold_proc, socket_path,
                   started_ydotoold, ctl, inputVars, threadVars, osVars,
                   obsVars, noopStarts, pressVars>>

\* ------------------------------------------------------------ loop _run
\* The return value of _ensure_ydotoold() ignored: the run carries on.
ensure_failed_ignored(t) ==
    /\ status(t, StRunning)
    /\ pc' = [pc EXCEPT ![t] = "top"]

\* status("Running") moved above the _ensure_ydotoold() test: a failed
\* launch is reported after a "Running".
ensure_failed_after_running(t) ==
    /\ recent' = IF t = obs
                   THEN Last2(recent \o <<StRunning, StNoDaemon>>)
                   ELSE recent
    /\ late' = (late \/ (t = obs /\ stopState = "returned"))
    /\ pc' = [pc EXCEPT ![t] = "done"]

\* if not self._ensure_ydotoold(): status("Stopped: ..."); return
ensure_failed(t) ==
    /\ status(t, StNoDaemon)
    /\ pc' = [pc EXCEPT ![t] = "done"]

\* The entry test written as "if not enabled": only the empty config stops.
too_few_keys_only_empty == config = {}

\* enabled = {k: v for k, v in config["keys"].items() if v.get("enabled")};
\* len(enabled) < 2
too_few_keys == Cardinality(config) < MinEnabledKeys

\* Entry of _run: the enabled-key precondition, then _ensure_ydotoold() and
\* the first status("Running"); a run that goes on reads the config into its
\* locals: vert, horiz and enable_diag before _ensure_ydotoold(), the delays,
\* flags and chances after it, all taken here as of one moment.
run_entry(t) ==
    /\ pc[t] = "entry"
    /\ IF too_few_keys
         THEN /\ status(t, StFewKeys)
              /\ pc' = [pc EXCEPT ![t] = "done"]
              /\ UNCHANGED <<ydotoold_proc, socket_path, started_ydotoold,
                             osVars, ensureResult>>
         ELSE \E ok \in BOOLEAN :
              /\ _ensure_ydotoold(t, ok)
              /\ ensureResult' = IF t # obs THEN ensureResult
                                 ELSE IF ok THEN "ok" ELSE "fail"
              /\ IF ok
                   THEN /\ status(t, StRunning)
                        /\ pc' = [pc EXCEPT ![t] = "top"]
                   ELSE ensure_failed(t)
    /\ run_config' = IF pc'[t] = "top"
                       THEN [run_config EXCEPT ![t] = CurrentConfig]
                       ELSE run_config
    /\ UNCHANGED <<stopFlag, pauseFlag, thread, ctl, inputVars, nthreads,
                   paused_reported, start_config, obs, dispatched, stopState,
                   polls, tdSince, stopExits, noopStarts, pressVars>>

\* The pause loop without the paused_reported test: every poll reports.
pause_poll_reports_each(t) ==
    /\ status(t, StPaused)
    /\ paused_reported' = [paused_reported EXCEPT ![t] = TRUE]
    /\ polls' = IF t = obs /\ polls < MaxPolls THEN polls + 1 ELSE polls
    /\ pc' = [pc EXCEPT ![t] = "poll"]

\* The pause loop written as an "if": "Paused" is reported and the cycle
\* goes on to its move.
pause_poll_falls_through(t) ==
    /\ IF ~paused_reported[t]
         THEN status(t, StPaused)
         ELSE UNCHANGED <<recent, late>>
    /\ paused_reported' = [paused_reported EXCEPT ![t] = TRUE]
    /\ polls' = IF t = obs /\ polls < MaxPolls THEN polls + 1 ELSE polls
    /\ pc' = [pc EXCEPT ![t] = "move"]

\* One pass of the pause loop: report "Paused" unless reported, sleep 150 ms.
pause_poll(t) ==
    /\ IF ~paused_reported[t]
         THEN status(t, StPaused)
         ELSE UNCHANGED <<recent, late>>
    /\ paused_reported' = [paused_reported EXCEPT ![t] = TRUE]
    /\ polls' = IF t = obs /\ polls < MaxPolls THEN polls + 1 ELSE polls
    /\ pc' = [pc EXCEPT ![t] = "poll"]

\* status("Stopped") and the teardown inside the while loop: the thread goes
\* back to the stop test instead of returning.
loop_exit_inside_loop(t) ==
    /\ status(t, StStopped)
    /\ _stop_ydotoold
    /\ stopExits' = stopExits + 1
    /\ pc' = [pc EXCEPT ![t] = "top"]

\* The loop was left on the stop flag: status("Stopped"), _stop_ydotoold(),
\* and _run returns.
loop_exit(t) ==
    /\ status(t, StStopped)
    /\ _stop_ydotoold
    /\ stopExits' = stopExits + 1
    /\ pc' = [pc EXCEPT ![t] = "done"]

\* max(2, n)
Max2(n) == IF n > 2 THEN n ELSE 2

\* The idle draw over the chance itself: randint(1, idle_chance).
IdleDraws_unclamped(t) == 1..run_config[t].idle_chance

\* The values of random.randint(1, max(2, idle_chance)).
IdleDraws(t) == 1..Max2(run_config[t].idle_chance)

\* A cycle begins: paused_reported = False, status("Running"), and
\* "if idle_enabled and random.randint(1, max(2, idle_chance)) == 1" starts
\* the idle sleep; no draw is made when idle is disabled.
cycle_begin(t) ==
    /\ paused_reported' = [paused_reported EXCEPT ![t] = FALSE]
    /\ status(t, StRunning)
    /\ polls' = IF t = obs THEN 0 ELSE polls
    /\ IF run_config[t].idle_enabled
         THEN \E draw \in IdleDraws(t) :
                /\ pc' = [pc EXCEPT ![t] = IF draw = 1 THEN "idle" ELSE "move"]
                /\ idle_draw' = IF t = obs THEN draw ELSE idle_draw
         ELSE /\ pc' = [pc EXCEPT ![t] = "move"]
              /\ idle_draw' = IF t = obs THEN 0 ELSE idle_draw

\* The head of the cycle loop, taken at the top of the loop (after the
\* inter-cycle sleep) and on waking from a 150 ms poll sleep: the outer while
\* test, the pause loop and the stop test after it.
run_head(t) ==
    /\ pc[t] \in {"top", "poll"}
    /\ IF stopFlag
         THEN /\ loop_exit(t)
              /\ UNCHANGED <<paused_reported, polls, idle_draw>>
         ELSE IF pauseFlag
           THEN /\ pause_poll(t)
                /\ UNCHANGED <<ydotoold_proc, socket_path, started_ydotoold,
                               osVars, tdSince, stopExits, idle_draw>>
           ELSE /\ cycle_begin(t)
                /\ UNCHANGED <<ydotoold_proc, socket_path, started_ydotoold,
                               osVars, tdSince, stopExits>>
    /\ UNCHANGED <<stopFlag, pauseFlag, thread, ctl, inputVars, nthreads,
                   run_config, start_config, obs, ensureResult, dispatched,
                   stopState, noopStarts, planVars>>

\* The idle sleep ends.
run_idle_wake(t) ==
    /\ pc[t] = "idle"
    /\ pc' = [pc EXCEPT ![t] = "move"]
    /\ UNCHANGED <<engineVars, ctl, inputVars, nthreads, paused_reported,
                   run_config, start_config, osVars, obsVars, noopStarts,
                   pressVars>>

\* subprocess.run(["ydotool", "key", ...]) without check=True: the exit status
\* of the command is never looked at, but starting a missing executable
\* raises FileNotFoundError, and neither press_key nor _run catches it.
key_command_raises == ~ydotool_installed

\* The whole move as one step: plan it, dispatch it (forward pass, reverse
\* pass) and start the inter-cycle sleep; or the first key command raises
\* and _run is left without status("Stopped") and without _stop_ydotoold().
run_move(t) ==
    /\ pc[t] = "move"
    /\ IF key_command_raises
         THEN /\ pc' = [pc EXCEPT ![t] = "raised"]
              /\ UNCHANGED dispatched
         ELSE /\ dispatched' = (dispatched \/ t = obs)
              /\ pc' = [pc EXCEPT ![t] = "top"]
    /\ idle_draw' = IF t = obs THEN 0 ELSE idle_draw
    /\ UNCHANGED <<engineVars, ctl, inputVars, nthreads, paused_reported,
                   run_config, start_config, osVars, obs, ensureResult, recent,
                   stopState, late, polls, tdSince, stopExits, noopStarts,
                   planVars>>

LoopStep(t) ==
    \/ run_entry(t)
    \/ run_head(t)
    \/ run_idle_wake(t)
    \/ run_move(t)

Next ==
    \/ start
    \/ stop_begin
    \/ stop_joined
    \/ stop_join_timeout
    \/ toggle_pause
    \/ \E t \in Threads : LoopStep(t)

Spec == Init /\ [][Next]_vars

\* --------------------------------------------------- the press-level run
\* The same engine with one run followed key command by key command: the
\* planner of the cycle, then press_key as a key-down step, the hold sleep
\* and a key-up step.  The locals (move_type, keys, step, tap) are those of
\* the one run this specification starts.

Reverse(s) == [i \in 1..Len(s) |-> s[Len(s) + 1 - i]]

Elems(s) == {s[i] : i \in 1..Len(s)}

\* [config["keys"][k]["code"] for k in ks if config["keys"][k]["enabled"]]
\* The config is the one the observed run read at its entry.
CodesOf(ks) ==
    LET on == SelectSeq(ks, LAMBDA k : k \in run_config[obs].keys)
    IN  [i \in 1..Len(on) |-> run_config[obs].codes[on[i]]]

vert == CodesOf(<<"W", "S">>)

horiz == CodesOf(<<"A", "D">>)

\* enable_diag without the config flag: the two sets decide alone.
enable_diag_ignores_flag == Len(vert) > 0 /\ Len(horiz) > 0

\* enable_diag = bool(config.get("enable_diagonals", True)) and
\*               (len(vert) > 0 and len(horiz) > 0)
enable_diag ==
    run_config[obs].enable_diagonals /\ Len(vert) > 0 /\ Len(horiz) > 0

\* move_type = random.choice(["axis", "diag"]) if enable_diag else "axis"
MoveTypes == IF enable_diag THEN {"axis", "diag"} ELSE {"axis"}

\* The axis drawn whatever the sets hold.
AxisChoices_both == {"vert", "horiz"}

\* if vert and horiz: random.choice(["vert", "horiz"]); elif vert: "vert";
\* else: "horiz"
AxisChoices ==
    IF vert # <<>> /\ horiz # <<>> THEN {"vert", "horiz"}
    ELSE IF vert # <<>> THEN {"vert"}
    ELSE {"horiz"}

\* An axis move that repeats its first code whatever else the axis enables.
AxisKeys_first_twice(pool) == {<<first, first>> : first \in Elems(pool)}

\* first = random.choice(pool); opp = [c for c in pool if c != first];
\* second = opp[0] if opp else first; keys = [first, second]
AxisKeys(pool) ==
    {LET opp == SelectSeq(pool, LAMBDA c : c # first)
     IN  <<first, IF opp # <<>> THEN opp[1] ELSE first>> : first \in Elems(pool)}

\* The values keys can take for a move type, before the random reversal.
PlannedKeys(mt) ==
    IF mt = "diag"
      THEN {<<v, h>> : v \in Elems(vert), h \in Elems(horiz)}
      ELSE UNION {AxisKeys(IF axis = "vert" THEN vert ELSE horiz) :
                    axis \in AxisChoices}

\* The lists random.choice is called on for a move type; random.choice
\* raises IndexError on an empty list.
DrawnPools(mt) ==
    IF mt = "diag"
      THEN {vert, horiz}
      ELSE {IF axis = "vert" THEN vert ELSE horiz : axis \in AxisChoices}

\* The second for loop written over keys instead of reversed(keys).
PressCode_forward_twice(k, n) == IF n <= Len(k) THEN k[n] ELSE k[n - Len(k)]

\* The code pressed at a position of the two for loops:
\* for code in keys, then for code in reversed(keys).
PressCode(k, n) == IF n <= Len(k) THEN k[n] ELSE Reverse(k)[n - Len(k)]

\* Plan the move of the cycle: the move type and the keys of the plan.  A
\* draw from an empty list raises and ends the thread.
run_plan(t) ==
    /\ pc[t] = "move"
    /\ \E mt \in MoveTypes :
         \/ /\ \E pool \in DrawnPools(mt) : pool = <<>>
            /\ pc' = [pc EXCEPT ![t] = "raised"]
            /\ UNCHANGED <<move_type, keys>>
         \/ /\ \E k \in PlannedKeys(mt) : keys' = k
            /\ move_type' = mt
            /\ pc' = [pc EXCEPT ![t] = "planned"]
    /\ step' = 1
    /\ tap' = 1
    /\ events' = <<>>
    /\ idle_draw' = IF t = obs THEN 0 ELSE idle_draw
    /\ double_draw' = 0
    /\ UNCHANGED <<engineVars, ctl, inputVars, nthreads, paused_reported,
                   run_config, start_config, osVars, obsVars, noopStarts>>

\* if random.random() < 0.5: keys = list(reversed(keys))
run_reverse(t) ==
    /\ pc[t] = "planned"
    /\ \E rev \in BOOLEAN : keys' = IF rev THEN Reverse(keys) ELSE keys
    /\ pc' = [pc EXCEPT ![t] = "press"]
    /\ UNCHANGED <<engineVars, ctl, inputVars, nthreads, paused_reported,
                   run_config, start_config, osVars, obsVars, noopStarts,
                   move_type, step, tap, events, idle_draw, double_draw>>

\* press_key, first half: the key-down command, then the hold sleep begins.
\* Before the second tap of a double tap the gap sleep has just ended.
key_down(t) ==
    /\ pc[t] = "press"
    /\ IF key_command_raises
         THEN /\ pc' = [pc EXCEPT ![t] = "raised"]
              /\ UNCHANGED <<events, dispatched>>
         ELSE /\ events' = Append(events, <<PressCode(keys, step), 1>>)
              /\ dispatched' = (dispatched \/ t = obs)
              /\ pc' = [pc EXCEPT ![t] = "hold"]
    /\ double_draw' = 0
    /\ UNCHANGED <<engineVars, ctl, inputVars, nthreads, paused_reported,
                   run_config, start_config, osVars, obs, ensureResult, recent,
                   stopState, late, polls, tdSince, stopExits, noopStarts,
                   move_type, keys, step, tap, idle_draw>>

\* The values of random.randint(1, max(2, double_chance)).
DoubleDraws(t) == 1..Max2(run_config[t].double_tap_chance)

\* maybe_double after the key-up of a tap: the draw is made only after the
\* first tap of a code and only when double taps are enabled; 0 is no draw.
TapDraws(t) ==
    IF tap = 1 /\ run_config[t].double_tap_enabled THEN DoubleDraws(t) ELSE {0}

\* The end of a press: draw 1 repeats the code after the gap sleep, anything
\* else moves the for loops on; after the last press the inter-cycle sleep
\* begins.
press_done(t, draw) ==
    /\ double_draw' = draw
    /\ IF draw = 1
         THEN /\ tap' = 2
              /\ step' = step
              /\ pc' = [pc EXCEPT ![t] = "press"]
         ELSE /\ tap' = 1
              /\ step' = step + 1
              /\ pc' = [pc EXCEPT ![t] = IF step < 2 * Len(keys)
                                           THEN "press" ELSE "top"]

\* press_key with a hold sleep that a stop request cuts short: the press is
\* abandoned with the key down and the loop goes to its stop test.
key_up_abandoned_on_stop(t) ==
    /\ pc[t] = "hold"
    /\ IF key_command_raises
         THEN /\ pc' = [pc EXCEPT ![t] = "raised"]
              /\ UNCHANGED <<events, step, tap, double_draw>>
         ELSE IF stopFlag
         THEN /\ pc' = [pc EXCEPT ![t] = "top"]
              /\ UNCHANGED <<events, step, tap, double_draw>>
         ELSE /\ events' = Append(events, <<PressCode(keys, step), 0>>)
              /\ \E draw \in TapDraws(t) : press_done(t, draw)
    /\ UNCHANGED <<engineVars, ctl, inputVars, nthreads, paused_reported,
                   run_config, start_config, osVars, obsVars, noopStarts,
                   move_type, keys, idle_draw>>

\* maybe_double that draws after every tap, whatever the flag says.
key_up_draws_always(t) ==
    /\ pc[t] = "hold"
    /\ IF key_command_raises
         THEN /\ pc' = [pc EXCEPT ![t] = "raised"]
              /\ UNCHANGED <<events, step, tap, double_draw>>
         ELSE /\ events' = Append(events, <<PressCode(keys, step), 0>>)
              /\ \E draw \in DoubleDraws(t) : press_done(t, draw)
    /\ UNCHANGED <<engineVars, ctl, inputVars, nthreads, paused_reported,
                   run_config, start_config, osVars, obsVars, noopStarts,
                   move_type, keys, idle_draw>>

\* press_key, second half: the hold sleep ends, the key-up command; then
\* maybe_double draws the second tap
\* (double_enabled and randint(1, max(2, double_chance)) == 1) or the for
\* loops move on.
key_up(t) ==
    /\ pc[t] = "hold"
    /\ IF key_command_raises
         THEN /\ pc' = [pc EXCEPT ![t] = "raised"]
              /\ UNCHANGED <<events, step, tap, double_draw>>
         ELSE /\ events' = Append(events, <<PressCode(keys, step), 0>>)
              /\ \E draw \in TapDraws(t) : press_done(t, draw)
    /\ UNCHANGED <<engineVars, ctl, inputVars, nthreads, paused_reported,
                   run_config, start_config, osVars, obsVars, noopStarts,
                   move_type, keys, idle_draw>>

PressLoopStep(t) ==
    \/ run_entry(t)
    \/ run_head(t)
    \/ run_idle_wake(t)
    \/ run_plan(t)
    \/ run_reverse(t)
    \/ key_down(t)
    \/ key_up(t)

\* The one start() of the press-level run.
first_start == nthreads = 0 /\ start

NextPress ==
    \/ first_start
    \/ stop_begin
    \/ stop_joined
    \/ stop_join_timeout
    \/ toggle_pause
    \/ \E t \in Threads : PressLoopStep(t)

\* Every combination of enabled keys and of the two flags, on a host with or
\* without the ydotool executable; the run observed is the one started.
InitPress ==
    /\ InitState
    /\ NoNormalize
    /\ caller \in Callers(SUBSET Keys, CodeMaps, BOOLEAN, {TRUE}, {2},
                          BOOLEAN, {2})
    /\ host \in Hosts(BOOLEAN, {FALSE}, {TRUE})
    /\ obs = 1

PressSpec == InitPress /\ [][NextPress]_vars

\* ------------------------------------------------- the draws of a cycle
\* Chances given to start(): one below the floor of 2 that the draws apply,
\* one above it.
DrawChances == {1, 3}

\* One run over two keys of different axes, with both idle and double tap
\* flags and chances on either side of the floor; ydotool is installed.
InitDraw ==
    /\ InitState
    /\ NoNormalize
    /\ caller \in Callers({{"W", "A"}}, {code}, {TRUE}, BOOLEAN, DrawChances,
                          BOOLEAN, DrawChances)
    /\ host \in Hosts({TRUE}, {FALSE}, {TRUE})
    /\ obs = 1

DrawSpec == InitDraw /\ [][NextPress]_vars

\* ------------------------------------------- a host with its own daemon
InitExternal ==
    /\ InitState
    /\ NoNormalize
    /\ caller \in DefaultTuning(Configs)
    /\ host \in Hosts(BOOLEAN, {TRUE}, {TRUE})
    /\ obs \in Threads

ExternalSpec == InitExternal /\ [][Next]_vars

\* ------------------------------------- a run and the caller's config dict
\* on_any_change, on the GTK main thread between the engine calls:
\* pull_ui_to_config() writes the widgets' values into self.config, the dict
\* object that on_start passed to engine.start(); save_json writes the file.
on_any_change ==
    /\ ctl = "idle"
    /\ changes < MaxChanges
    /\ \E c \in ConfigsAfterChange :
         caller' = [keys |-> c.keys, codes |-> c.codes,
                    enable_diagonals |-> c.enable_diagonals,
                    idle_enabled |-> c.idle_enabled,
                    idle_chance |-> c.idle_chance,
                    double_tap_enabled |-> c.double_tap_enabled,
                    double_tap_chance |-> c.double_tap_chance,
                    changes |-> changes + 1]
    /\ UNCHANGED <<engineVars, ctl, host, norm, threadVars, osVars, obsVars,
                   noopStarts, pressVars>>

NextRun ==
    \/ first_start
    \/ stop_begin
    \/ stop_joined
    \/ stop_join_timeout
    \/ toggle_pause
    \/ on_any_change
    \/ \E t \in Threads : LoopStep(t)

\* One run started from the window with two keys enabled, on a host with
\* ydotool whose daemon exits on terminate() or has to be killed.
InitRun ==
    /\ InitState
    /\ NoNormalize
    /\ caller \in DefaultTuning({{"W", "A"}})
    /\ host \in Hosts({TRUE}, {FALSE}, BOOLEAN)
    /\ obs = 1

RunSpec == InitRun /\ [][NextRun]_vars

\* ------------------------------------------------------ normalize_config
\* The numeric fields of the config: six times in seconds, two chances and
\* the code of a key (W; the four keys are treated alike).
DelayFields ==
    {"min_delay", "max_delay", "press_min", "press_max", "idle_min", "idle_max"}

ChanceFields == {"idle_chance", "double_tap_chance"}

NormFields == DelayFields \cup ChanceFields \cup {"code_W"}

\* A JSON value: t is its kind and v its number in hundredths (0.25 is 25,
\* the integer 2 is 200).  "nan" is the float NaN (json.load reads the
\* literal NaN), "str_nan" the string "nan", "str_int" a string of digits,
\* "str_bad" any other string, "null" None, "bool" true or false, "missing"
\* a key the mapping does not hold.
Val(t, v) == [t |-> t, v |-> v]

Missing == Val("missing", 0)

InputValues ==
    {Val("int", -100), Val("int", 0), Val("int", 300),
     Val("float", -50), Val("float", 290),
     Val("nan", 0), Val("str_nan", 0), Val("str_bad", 0), Val("str_int", 700),
     Val("null", 0), Val("bool", 100)}

\* The mapping that gives the fields of g the values of g and no other.
RawConfig(g) ==
    [fld \in NormFields |-> IF fld \in DOMAIN g THEN g[fld] ELSE Missing]

\* DEFAULT_CONFIG, the fallback of every call.
Default(fld) ==
    CASE fld = "min_delay" -> Val("float", 25)
      [] fld = "max_delay" -> Val("float", 90)
      [] fld = "press_min" -> Val("float", 6)
      [] fld = "press_max" -> Val("float", 20)
      [] fld = "idle_min" -> Val("float", 100)
      [] fld = "idle_max" -> Val("float", 350)
      [] fld = "idle_chance" -> Val("int", 1000)
      [] fld = "double_tap_chance" -> Val("int", 800)
      [] fld = "code_W" -> Val("int", 100 * code["W"])

\* merged[k]: the mapping's value over a deep copy of the fallback.
Merged(cfg, fld) == IF cfg[fld] = Missing THEN Default(fld) ELSE cfg[fld]

\* int() of a float: towards zero.
Trunc(v) == IF v >= 0 THEN (v \div 100) * 100 ELSE 0 - (((0 - v) \div 100) * 100)

\* f(x, default): float(x), the default when float() raises.  float("nan")
\* is NaN.
float_or(x, default) ==
    CASE x.t \in {"int", "float", "bool", "str_int"} -> Val("float", x.v)
      [] x.t \in {"nan", "str_nan"} -> Val("nan", 0)
      [] OTHER -> default

\* i(x, default): int(x), the default when int() raises (NaN, a string that
\* is not an integer literal, None).
int_or(x, default) ==
    CASE x.t \in {"int", "bool", "str_int"} -> Val("int", x.v)
      [] x.t = "float" -> Val("int", Trunc(x.v))
      [] OTHER -> default

\* a < b on floats: False when either is NaN.
Lt(a, b) == a.t # "nan" /\ b.t # "nan" /\ a.v < b.v

\* normalize_config(cfg, DEFAULT_CONFIG) on the numeric fields of a mapping
\* whose "keys" is a dict of dicts: merge over the fallback, coerce with
\* f and i, raise each max to its min, raise the chances to 2.
normalize_config(cfg) ==
    LET co == [fld \in NormFields |->
                 IF fld \in DelayFields
                   THEN float_or(Merged(cfg, fld), Default(fld))
                   ELSE int_or(Merged(cfg, fld), Default(fld))]
        clamp(lo, hi) == IF Lt(co[hi], co[lo]) THEN co[lo] ELSE co[hi]
    IN  [fld \in NormFields |->
           CASE fld = "max_delay" -> clamp("min_delay", "max_delay")
             [] fld = "press_max" -> clamp("press_min", "press_max")
             [] fld = "idle_max" -> clamp("idle_min", "idle_max")
             [] fld \in ChanceFields ->
                  IF co[fld].v > 200 THEN co[fld] ELSE Val("int", 200)
             [] OTHER -> co[fld]]

\* One call of normalize_config: on the mapping read, then on its own
\* output (load_json, then on_preset_selected).
normalize ==
    /\ passes < MaxPasses
    /\ norm' = [raw |-> raw,
                normalized |->
                    normalize_config(IF passes = 0 THEN raw ELSE normalized),
                passes |-> passes + 1]
    /\ UNCHANGED <<engineVars, ctl, caller, host,
                   threadVars, osVars, obsVars, noopStarts, pressVars>>

\* Every mapping with at most MaxGiven of the fields given.
InitNorm ==
    /\ InitState
    /\ caller \in DefaultTuning({Keys})
    /\ host \in Hosts({TRUE}, {FALSE}, {TRUE})
    /\ obs = 1
    /\ \E given \in SUBSET NormFields :
         /\ Cardinality(given) <= MaxGiven
         /\ \E g \in [given -> InputValues] :
              norm = [raw |-> RawConfig(g), normalized |-> <<>>, passes |-> 0]

NormSpec == InitNorm /\ [][normalize]_vars

\* The loop threads keep being scheduled; the controller calls are the
\* user's and need never come.
FairSpec == Spec /\ \A t \in Threads : WF_vars(LoopStep(t))

\* ------------------------------------------------------------ properties
\* The latest completed lifecycle call is a stop(): the stop flag is only set
\* by stop() and only cleared by a start() that creates a thread.
StopReturned == ctl = "idle" /\ stopFlag

\* C1: a run whose config enables fewer than 2 keys goes directly to a
\* Stopped status: it never calls _ensure_ydotoold, launches no daemon,
\* dispatches no key event, and its only status is
\* "Stopped: enable at least 2 keys".
C1_FewKeysStopAtEntry ==
    (Cardinality(config) < 2 /\ pc[obs] # "unborn") =>
        /\ pc[obs] \in {"entry", "done"}
        /\ ensureResult = "none"
        /\ procs[obs] = "none"
        /\ ~dispatched
        /\ (pc[obs] = "done" => recent = <<StFewKeys>>)

C1_Witness ==
    Cardinality(config) = 1 /\ pc[obs] = "done" /\ recent = <<StFewKeys>>

\* C2: when the daemon launch fails, _ensure_ydotoold returns failure and the
\* run ends at once with the status "Stopped: ydotoold missing or failed" as
\* its only status: it never reports Running and dispatches no key event.
C2_LaunchFailureStops ==
    ensureResult = "fail" =>
        /\ pc[obs] = "done"
        /\ recent = <<StNoDaemon>>
        /\ procs[obs] = "none"
        /\ ~dispatched

C2_Witness == ensureResult = "fail" /\ pc[obs] = "done"

\* C3: at most one scheduling loop is executing at any time.
C3_AtMostOneLoop == Cardinality(LoopActive) <= 1

\* C4: a start() call made while self.thread is a live loop thread is a
\* no-op: it creates no thread and changes neither the flags, nor the thread
\* handle, nor the daemon handle, nor any loop's state.
C4_StartWhileActiveIsNoop ==
    [][(/\ thread # 0
        /\ IsAlive(thread)
        /\ (nthreads' # nthreads \/ noopStarts' # noopStarts))
       => UNCHANGED <<engineVars, ctl, config, threadVars, osVars, obsVars>>]_vars

C4_Witness == noopStarts > 0 /\ thread # 0 /\ IsAlive(thread)

\* C5: every stop request issued while a loop is active eventually ends that
\* loop (it reports Stopped, tears the daemon down and returns), whatever
\* controller calls follow the request.
C5_StopEndsLoop == (stopState = "requested") ~> ~IsAlive(obs)

\* C6, as stated: once stop() has returned and no loop is left, exactly one
\* _stop_ydotoold call has been made since that stop() began.
C6_ExactlyOneTeardown ==
    (StopReturned /\ LoopActive = {}) => tdSince = 1

\* C6, amended: stop() itself makes exactly one _stop_ydotoold call, as its
\* last step, and every loop that leaves on the stop flag makes one more: the
\* calls since a stop() began number the loops that left since then, plus one
\* once the stop() has returned.
C6_TeardownPerStop ==
    /\ ctl = "joining" => tdSince = stopExits
    /\ StopReturned => tdSince = stopExits + 1

C6_Witness ==
    StopReturned /\ LoopActive = {} /\ stopExits = 1 /\ tdSince = 2

\* C7: once stop() has returned and every loop thread has exited, no daemon
\* process the engine launched is alive and no socket file is left.
C7_NoDaemonSurvivesStop ==
    (StopReturned /\ LoopActive = {}) =>
        /\ \A t \in Threads : procs[t] # "alive"
        /\ ~sockFile

\* C8: a run never reports "Running" twice in a row: between two "Running"
\* reports of one run there is a "Paused" report.
C8_RunningOnlyOnTransition == recent # <<StRunning, StRunning>>

\* C9: a run reports "Paused" once per stay in the pause loop: while it polls
\* there its last status is "Paused", and it never reports "Paused" twice in
\* a row, however many polls it makes.
C9_PausedOncePerEntry ==
    /\ recent # <<StPaused, StPaused>>
    /\ pc[obs] = "poll" => LastStatus = StPaused

C9_Witness ==
    pc[obs] = "poll" /\ polls >= 2 /\ recent = <<StRunning, StPaused>>

\* C10: a run that has ended has a Stopped text as its last status, and a run
\* reports neither "Running" nor "Paused" after a stop() issued while it was
\* active has returned.
C10_TerminalStopped ==
    /\ ~late
    /\ pc[obs] = "done" => LastStatus \in StoppedTexts

\* C11: no failure of a key command ends the loop: whether the command exits
\* non-zero or the ydotool executable is missing, no exception leaves _run.
C11_DispatchFailureNotFatal == \A t \in Threads : pc[t] # "raised"

\* C12: on a host where a daemon the engine did not launch is already
\* running, the engine launches no daemon of its own and never marks one as
\* owned, and the external daemon keeps running.
C12_ReusesExternalDaemon ==
    externalDaemon =>
        /\ \A t \in Threads : procs[t] = "none"
        /\ ~started_ydotoold
        /\ ydotoold_proc = 0

\* C13: every _stop_ydotoold call, in whatever state it is made, leaves the
\* handle released (no process, not owned, the process it held dead), and a
\* call made on a released handle changes nothing: not the handle, not the
\* socket path, no process and not the socket file.
C13_TeardownIdempotent ==
    [][tdSince' = tdSince + 1 =>
         /\ ydotoold_proc' = 0
         /\ ~started_ydotoold'
         /\ \A t \in Threads : procs[t] = "alive" /\ ydotoold_proc = t
                                   => procs'[t] # "alive"
         /\ (ydotoold_proc = 0 /\ ~started_ydotoold)
              => UNCHANGED <<ydotoold_proc, started_ydotoold, socket_path,
                             procs, sockFile>>]_vars

\* The second teardown in a row: the loop's on leaving, then stop()'s.
C13_Witness ==
    /\ tdSince = 2
    /\ stopExits = 1
    /\ ensureResult = "ok"
    /\ ydotoold_proc = 0
    /\ ~started_ydotoold

\* C14: a toggle_pause() made while no run is active reports no status and
\* changes nothing but the pause flag, and a start() that starts a run
\* clears that flag: the run does not begin paused.
C14_TogglePauseWhileStopped ==
    [][/\ (/\ LoopActive = {}
            /\ pauseFlag' # pauseFlag
            /\ ctl' = ctl
            /\ nthreads' = nthreads)
           => UNCHANGED <<stopFlag, thread, ydotoold_proc, socket_path,
                          started_ydotoold, threadVars, osVars, obsVars>>
       /\ nthreads' # nthreads => ~pauseFlag']_vars

\* The pause flag set by a toggle made after the observed run was stopped.
C14_Witness ==
    /\ pauseFlag
    /\ LoopActive = {}
    /\ stopState = "returned"
    /\ LastStatus = StStopped

\* C15: the pause flag is looked at only at the top of a cycle.  From its
\* "Paused" report to its next report the run sits in the pause loop; every
\* key command is issued with "Running" as the run's last report; and the
\* pause loop is entered from the top of the cycle loop only, so a pause
\* requested in the middle of a cycle waits for the cycle to finish.
C15_PauseCheckedAtTop ==
    [][/\ LastStatus' = StPaused => pc'[obs] = "poll"
       /\ Len(events') > Len(events) => LastStatus = StRunning
       /\ (pc'[obs] = "poll" /\ pc[obs] # "poll") => pc[obs] = "top"]_vars

\* A pause requested in the middle of a cycle: the second press is held.
C15_Witness ==
    /\ pauseFlag
    /\ ~stopFlag
    /\ pc[obs] = "hold"
    /\ Len(events) >= 3

\* The codes of the key-down commands of the current cycle, in order.
PressedCodes ==
    LET downs == SelectSeq(events, LAMBDA e : e[2] = 1)
    IN  [i \in 1..Len(downs) |-> downs[i][1]]

IsPrefix(s, u) == Len(s) <= Len(u) /\ \A i \in 1..Len(s) : s[i] = u[i]

Rep(c, n) == [i \in 1..n |-> c]

\* Forward pass over <<a, b>>, then reverse pass, position i pressed d[i]
\* times.
Expand(k, d) ==
    Rep(k[1], d[1]) \o Rep(k[2], d[2]) \o Rep(k[2], d[3]) \o Rep(k[1], d[4])

\* How often each of the four positions may be pressed: once, or once or
\* twice with double tap enabled.
Taps ==
    IF double_tap_enabled THEN [1..4 -> {1, 2}] ELSE {[i \in 1..4 |-> 1]}

CycleDone == keys # <<>> /\ step > 2 * Len(keys)

\* C16: the presses of a cycle are a forward pass over the planned keys
\* <<a, b>> followed by a reverse pass: at any moment the codes pressed so
\* far are a prefix of a, b, b, a (a position repeated only by a double
\* tap), and a finished cycle has pressed all of it; with double tap disabled
\* that is exactly the 4 presses a, b, b, a.
C16_ForwardThenReverse ==
    keys # <<>> =>
        /\ \E d \in Taps :
              /\ IsPrefix(PressedCodes, Expand(keys, d))
              /\ CycleDone => PressedCodes = Expand(keys, d)
        /\ (~double_tap_enabled /\ CycleDone)
             => PressedCodes = <<keys[1], keys[2], keys[2], keys[1]>>

\* A finished cycle with double tap disabled and two different codes.
C16_Witness ==
    /\ ~double_tap_enabled
    /\ CycleDone
    /\ keys[1] # keys[2]
    /\ Len(PressedCodes) = 4
    /\ pc[obs] = "top"

\* A planned sequence with one vertical and one horizontal code.
IsDiagonal(k) ==
    /\ k # <<>>
    /\ \E v \in {"W", "S"}, h \in {"A", "D"} :
          {k[1], k[2]} = {codes[v], codes[h]}

\* C17: for every combination of enabled keys and both values of
\* enable_diagonals, a diagonal move is planned only when enable_diagonals
\* is true and a vertical key and a horizontal key are enabled; the move
\* type "diag" is exactly the diagonal plans.
C17_DiagonalOnlyWhenEnabled ==
    /\ IsDiagonal(keys) =>
          /\ enable_diagonals
          /\ config \cap {"W", "S"} # {}
          /\ config \cap {"A", "D"} # {}
    /\ keys # <<>> => (move_type = "diag" <=> IsDiagonal(keys))

\* A diagonal planned with exactly one vertical and one horizontal key on.
C17_Witness ==
    /\ IsDiagonal(keys)
    /\ Cardinality(config) = 2
    /\ pc[obs] = "press"

\* C18: every key command of the run is issued while the daemon the run
\* launched is alive and before a stop() issued during the run has
\* returned.
C18_KeysWhileProvisioned ==
    [][Len(events') > Len(events) =>
         /\ stopState # "returned"
         /\ procs[obs] = "alive"]_vars

\* C19: the key commands of a run come in pairs, the key-down of a code and
\* then the key-up of the same code, with no other key command in between;
\* a key is down only during the hold sleep of its press, so a run that has
\* left its loop holds no key down.
C19_PressAtomic ==
    /\ \A i \in 1..Len(events) :
          IF i % 2 = 1
            THEN events[i][2] = 1
            ELSE events[i][2] = 0 /\ events[i][1] = events[i - 1][1]
    /\ Len(events) % 2 = 1 => pc[obs] = "hold"
    /\ pc[obs] = "done" => Len(events) % 2 = 0

\* A stop requested while a key is held down.
C19_Witness ==
    /\ stopFlag
    /\ pc[obs] = "hold"
    /\ Len(events) % 2 = 1

\* C20: a run that meets a fatal-at-entry condition reports exactly one
\* status in its life, the "Stopped: <reason>" text of that condition, and
\* has then returned: a reason text is never preceded or followed by another
\* status of the run, and it is the text of the condition met.
C20_FatalAtEntryOnce ==
    /\ LastStatus \in {StFewKeys, StNoDaemon} =>
          /\ Len(recent) = 1
          /\ pc[obs] = "done"
          /\ ~dispatched
    /\ LastStatus = StFewKeys <=>
          (pc[obs] = "done" /\ Cardinality(config) < MinEnabledKeys)
    /\ LastStatus = StNoDaemon <=> ensureResult = "fail"

\* The launch failure reported, and a stop() made after it has returned.
C20_Witness ==
    /\ recent = <<StNoDaemon>>
    /\ StopReturned
    /\ tdSince = 1

\* C21: the statuses of a run follow its transitions.  The first status of a
\* run that passes the entry validation is "Running", and no key event of
\* the run comes before it; once the loop has emitted "Stopped" the run
\* emits no further status and no key event, and "Stopped" is emitted by
\* the thread that leaves its loop (at the stop test of the loop or of the
\* pause wait) and returns.
C21_StatusOrder ==
    [][/\ (recent = <<>> /\ recent' # <<>> /\ pc'[obs] # "done")
            => (recent' = <<StRunning>> /\ events = <<>> /\ ~dispatched)
       /\ Len(events') > Len(events) => recent # <<>>
       /\ LastStatus = StStopped
            => (recent' = recent /\ events' = events
                /\ dispatched' = dispatched /\ pc'[obs] = "done")
       /\ (LastStatus # StStopped /\ LastStatus' = StStopped)
            => (pc[obs] \in {"top", "poll"} /\ pc'[obs] = "done")]_vars

\* A run that pressed keys has emitted "Stopped" after "Running" and returned.
C21_Witness ==
    /\ recent = <<StRunning, StStopped>>
    /\ events # <<>>
    /\ pc[obs] = "done"

\* The codes the observed run holds enabled on an axis.
AxisCodes(axis) ==
    {run_config[obs].codes[k] : k \in axis \cap run_config[obs].keys}

\* C22: an axis move is planned as two codes of one axis: the first is an
\* enabled code of the chosen axis, and the second is the other enabled code
\* of that axis when the axis has a code different from the first, and the
\* first again otherwise.
C22_AxisPlan ==
    (pc[obs] = "planned" /\ move_type = "axis") =>
        /\ Len(keys) = 2
        /\ \E axis \in {{"W", "S"}, {"A", "D"}} :
              /\ keys[1] \in AxisCodes(axis)
              /\ keys[2] \in AxisCodes(axis)
              /\ IF AxisCodes(axis) \ {keys[1]} # {}
                   THEN keys[2] # keys[1]
                   ELSE keys[2] = keys[1]

\* An axis plan over two enabled keys of different codes.
C22_Witness ==
    /\ pc[obs] = "planned"
    /\ move_type = "axis"
    /\ keys[1] # keys[2]

\* C23: with at least 2 of the four direction keys enabled the planner never
\* draws from an empty list: a thread about to plan has at least 2 keys
\* enabled, never fails in planning, and every list its draw can use holds a
\* code.
C23_PlannerNeverDrawsEmpty ==
    [][pc[obs] = "move" =>
         /\ Cardinality(run_config[obs].keys) >= MinEnabledKeys
         /\ pc'[obs] # "raised"
         /\ \A mt \in MoveTypes : \A pool \in DrawnPools(mt) : pool # <<>>]_vars

\* A move planned with both enabled keys on one axis, the other axis empty.
C23_Witness ==
    /\ pc[obs] = "planned"
    /\ run_config[obs].keys = {"W", "S"}

\* C24: maybe_double presses its code once and repeats it at most once: a
\* second tap follows only a first tap, only with double tap enabled and
\* only on a draw of 1 from 1..max(2, double_tap_chance), and it presses the
\* same position again; every draw of 1 is followed by the repeat.  A
\* finished cycle has dispatched 4 to 8 presses, exactly 4 with double tap
\* disabled.
C24_MaybeDouble ==
    [][/\ (pc[obs] = "hold" /\ pc'[obs] \in {"press", "top"}) =>
            /\ tap' = 2 <=> (/\ tap = 1
                             /\ run_config[obs].double_tap_enabled
                             /\ double_draw' = 1)
            /\ tap' = 2 => (step' = step /\ pc'[obs] = "press")
            /\ tap' # 2 => step' = step + 1
            /\ double_draw' # 0 =>
                 /\ run_config[obs].double_tap_enabled
                 /\ double_draw' >= 1
                 /\ \/ double_draw' <= 2
                    \/ double_draw' <= run_config[obs].double_tap_chance
       /\ CycleDone' =>
            /\ Len(PressedCodes') >= 4
            /\ Len(PressedCodes') <= 8
            /\ ~run_config[obs].double_tap_enabled => Len(PressedCodes') = 4]_vars

\* A finished cycle in which every one of the 4 presses was repeated.
C24_Witness ==
    /\ CycleDone
    /\ Len(PressedCodes) = 8
    /\ pc[obs] = "top"

\* C25: a cycle runs in the order idle sleep (optional), plan, dispatch,
\* inter-cycle sleep.  The idle sleep is entered only from the start of a
\* cycle, only with idle enabled and only on a draw of 1 from
\* 1..max(2, idle_chance); planning follows the idle sleep or a cycle start
\* without one; presses follow the plan; the inter-cycle sleep follows the
\* last press of the forward and reverse passes.  The draw has at least 2
\* values whatever the chance.
C25_CycleOrder ==
    [][/\ (pc'[obs] = "idle" /\ pc[obs] # "idle") =>
            /\ pc[obs] \in {"top", "poll"}
            /\ run_config[obs].idle_enabled
            /\ idle_draw' = 1
       /\ (pc'[obs] = "move" /\ pc[obs] # "move") =>
            \/ pc[obs] = "idle"
            \/ /\ pc[obs] \in {"top", "poll"}
               /\ run_config[obs].idle_enabled => idle_draw' > 1
       /\ (pc'[obs] = "planned" /\ pc[obs] # "planned") => pc[obs] = "move"
       /\ (pc'[obs] = "press" /\ pc[obs] # "press")
            => pc[obs] \in {"planned", "hold"}
       /\ (pc'[obs] = "hold" /\ pc[obs] # "hold") => pc[obs] = "press"
       /\ (pc'[obs] = "top" /\ pc[obs] \notin {"top", "poll", "entry"})
            => (pc[obs] = "hold" /\ CycleDone')
       /\ idle_draw' # 0 =>
            /\ run_config[obs].idle_enabled
            /\ idle_draw' >= 1
            /\ idle_draw' <= 2 \/ idle_draw' <= run_config[obs].idle_chance
       /\ pc[obs] \in {"top", "poll"} => Cardinality(IdleDraws(obs)) >= 2]_vars

\* With an idle chance below 2 the draw came out 2: no idle sleep, the plan
\* is next.
C25_Witness ==
    /\ run_config[obs].idle_chance < 2
    /\ idle_draw = 2
    /\ pc[obs] = "move"

\* C26: the teardown is graceful, then forceful.  A daemon that is still
\* running is sent terminate() and is killed only when it has not exited
\* within the wait ("killed" is terminate(), TimeoutExpired, kill()); no
\* other process is touched; the handle is dropped in every case; the
\* socket file is removed only when this engine started the daemon; and the
\* owned flag is false afterwards.
C26_GracefulThenForceful ==
    [][tdSince' = tdSince + 1 =>
         /\ \A p \in Threads :
              IF p = ydotoold_proc /\ procs[p] = "alive"
                THEN procs'[p] = IF daemon_exits_on_term
                                   THEN "terminated" ELSE "killed"
                ELSE procs'[p] = procs[p]
         /\ ydotoold_proc' = 0
         /\ (sockFile /\ ~sockFile') => started_ydotoold
         /\ ~started_ydotoold => sockFile' = sockFile
         /\ ~started_ydotoold']_vars

\* The teardown of a daemon that exited on terminate(): handle dropped,
\* socket file removed, owned flag cleared.
C26_Witness ==
    /\ procs[obs] = "terminated"
    /\ tdSince > 0
    /\ ydotoold_proc = 0
    /\ ~sockFile
    /\ ~started_ydotoold

\* C27: the config of a run is fixed at start: what the loop uses (enabled
\* keys and codes, diagonal flag, idle and double-tap flags and chances) is
\* what the config held when start() was called, whatever the caller writes
\* to the config object afterwards.
C27_ConfigFixedAtStart ==
    pc[obs] \in {"top", "poll", "idle", "move"}
        => run_config[obs] = start_config

\* a >= b on floats: False when either is NaN.
Ge(a, b) == a.t # "nan" /\ b.t # "nan" /\ a.v >= b.v

\* C28: for every input mapping the output of normalize_config has
\* max_delay >= min_delay, press_max >= press_min, idle_max >= idle_min,
\* idle_chance >= 2 and double_tap_chance >= 2, and normalize_config of an
\* output is that output.
C28_NormalizedInvariants ==
    [][passes' > passes =>
         /\ Ge(normalized'["max_delay"], normalized'["min_delay"])
         /\ Ge(normalized'["press_max"], normalized'["press_min"])
         /\ Ge(normalized'["idle_max"], normalized'["idle_min"])
         /\ normalized'["idle_chance"].v >= 200
         /\ normalized'["double_tap_chance"].v >= 200
         /\ passes >= 1 => normalized' = normalized]_vars

\* C29: for every input mapping the output of normalize_config has every
\* key code >= 1 and min_delay, max_delay, press_min and press_max > 0.
C29_CodesAndDelaysPositive ==
    passes > 0 =>
        /\ normalized["code_W"].v >= 100
        /\ \A fld \in {"min_delay", "max_delay", "press_min", "press_max"} :
              normalized[fld].t # "nan" /\ normalized[fld].v > 0

====
